---------------------------- MODULE Spec2Model ----------------------------
(***************************************************************************)
(* Verification model of the conversational-context cache of the           *)
(* conversational-faiss-rag-api service.                                   *)
(*                                                                         *)
(*   SessionSpec  UserSession (cache-aside coordinator) over RedisSession  *)
(*                and PostgresSession                                      *)
(*   CacheSpec    LRUCache (in-process bounded, time-expiring cache), its   *)
(*                operations taken whole and cleanup called at any time    *)
(*   JanitorSpec  LRUCache with cleanup called by _cleanup_task, once      *)
(*                every cleanup_interval seconds                           *)
(*   LockSpec     LRUCache with the threads that call it, each operation   *)
(*                taken statement by statement inside `with self.lock`     *)
(*   HistorySpec  ChatHistoryProcessor._process_chat_history on every      *)
(*                bounded chat history and token limit                     *)
(*   DocsSpec     AggregateDocsChain._aggregate_docs_until_token_limit on  *)
(*                every bounded list of scored documents and token limit   *)
(*   RankSpec     the retrieval stage of AssistantChain._invoke on every   *)
(*                bounded list of scores, cutoff and minimum score         *)
(*   RequestSpec  one ask-question request under ErrorHandlingMiddleware   *)
(*   RedisLockSpec  two callers of RedisSession.acquire_lock/release_lock  *)
(*                on one lock name                                         *)
(***************************************************************************)
EXTENDS Integers, Sequences, FiniteSets, TLC

VARIABLES
    durable,       \* PostgresSession: session id -> rows of user_interactions, oldest first
    cache,         \* Redis: session id -> list stored under session:<id>:chat_history (<<>> = no key)
    call,          \* caller -> the UserSession call it is in, or has last finished
    lru_cache,     \* LRUCache.cache: the OrderedDict, as a sequence of [key, value, ts], front first
    expiry_queue,  \* LRUCache.expiry_queue: the deque of <<timestamp, key>>, left first
    now,           \* time.time(), in whole seconds
    lru_last,      \* the LRUCache operation completed last, with what it returned
    touched,       \* the keys put or hit so far with the time of their last touch, most recent last
    swept,         \* TRUE once a cleanup has removed an entry
    wake,          \* the time at which _cleanup_task's sleep ends
    lock,          \* LRUCache.lock: the thread that acquired it last, None when released
    thread,        \* thread -> where it is in the LRUCache operation it is calling
    pack_in,       \* the arguments and configuration of the packer or ranker call under study
    pack_out,      \* what that call returned, NoOutput before it has run
    request,       \* the ask-question request inside ErrorHandlingMiddleware and its attempts
    lock_key,      \* Redis: the key lock:<lock_name>, NoKey when it does not exist
    locker         \* caller -> where it is between acquire_lock and release_lock

sessionVars == <<durable, cache, call>>
lruVars == <<lru_cache, expiry_queue, now, lru_last, touched, swept, wake>>
lockVars == <<lock, thread>>
packVars == <<pack_in, pack_out>>
serviceVars == <<request, lock_key, locker>>
nonSessionVars == <<lruVars, lockVars, packVars, serviceVars>>
nonCacheVars == <<sessionVars, lockVars, packVars, serviceVars>>
vars == <<durable, cache, call, lru_cache, expiry_queue, now, lru_last,
          touched, swept, wake, lock, thread, pack_in, pack_out,
          request, lock_key, locker>>

(***************************************************************************)
(* Bounds of the model                                                     *)
(***************************************************************************)
NumSessions == 1
MaxStoredRows == 1

\* Two request handlers running concurrently against the same backends.
Callers == {"c1", "c2"}
Sessions == 1..NumSessions

(***************************************************************************)
(* Messages and their Redis encoding                                       *)
(***************************************************************************)
None == "None"

HumanMessage(c) == [type |-> "human", content |-> c]
AIMessage(c) == [type |-> "ai", content |-> c]

\* serialize_message: a JSON object carrying the type tag and the content
\* (additional_kwargs and response_metadata are the defaults for every
\* message this service builds).
serialize_message(m) ==
    IF m.type = "human" THEN <<"human", m.content>>
    ELSE <<"ai", m.content>>

\* deserialize_message: rebuilds the message from the type tag.
deserialize_message(s) ==
    IF s[1] = "human" THEN HumanMessage(s[2]) ELSE AIMessage(s[2])

\* [serialize_message(msg) for msg in messages]
serialize_all(messages) ==
    [i \in 1..Len(messages) |-> serialize_message(messages[i])]

\* [deserialize_message(msg) for msg in results[0]]
deserialize_all(list) ==
    [i \in 1..Len(list) |-> deserialize_message(list[i])]

(***************************************************************************)
(* PostgresSession                                                         *)
(***************************************************************************)
\* get_chat_history's default row limit.
PgLimit == 100

Truthy(x) == x # None /\ x # ""

RowMessages(row) ==
    (IF Truthy(row.user_query) THEN <<HumanMessage(row.user_query)>> ELSE <<>>)
    \o (IF Truthy(row.llm_response) THEN <<AIMessage(row.llm_response)>> ELSE <<>>)

RECURSIVE FlattenRows(_)
FlattenRows(rows) ==
    IF rows = <<>> THEN <<>>
    ELSE RowMessages(Head(rows)) \o FlattenRows(Tail(rows))

\* SELECT ... ORDER BY created_at ASC LIMIT limit OFFSET 0, then one
\* HumanMessage / AIMessage per non-empty column.
Postgres_get_chat_history(rows) ==
    FlattenRows(SubSeq(rows, 1, IF Len(rows) < PgLimit THEN Len(rows) ELSE PgLimit))

\* The row store_chat_message inserts: messages[-2] when it is a
\* HumanMessage, messages[-1] when it is an AIMessage.
Postgres_row_of(messages) ==
    [user_query |->
        IF Len(messages) >= 2 /\ messages[Len(messages) - 1].type = "human"
        THEN messages[Len(messages) - 1].content ELSE None,
     llm_response |->
        IF Len(messages) >= 1 /\ messages[Len(messages)].type = "ai"
        THEN messages[Len(messages)].content ELSE None]

\* async def store_chat_message(self, session_id, messages, interaction_time)
Postgres_store_chat_message_params == 3

(***************************************************************************)
(* RedisSession                                                            *)
(***************************************************************************)
RedisSession_methods ==
    {"set_session", "get_session", "delete_session", "store_chat_message",
     "get_chat_history", "acquire_lock", "release_lock", "increment_counter",
     "perform_atomic_operation", "update_session_data", "close"}

\* get_chat_history is a plain def: what it returns is a list, not an awaitable.
Redis_get_chat_history_is_coroutine == FALSE

\* LRANGE key 0 -1 (and EXPIRE), each element deserialized; a RedisError is
\* caught inside and [] returned.
Redis_get_chat_history(list, redisFault) ==
    IF redisFault THEN <<>> ELSE deserialize_all(list)

\* RPUSH key *serialized (and EXPIRE); a RedisError is caught and logged.
Redis_store_chat_message(list, messages, redisFault) ==
    IF redisFault THEN list ELSE list \o serialize_all(messages)


(***************************************************************************)
(* UserSession                                                             *)
(***************************************************************************)
\* What a handler run leaves behind: how it ended ("value": returned,
\* "raised": an exception reached the caller), the value returned, the Redis
\* list and the rows afterwards, and which backends it touched.
Effect(outcome, value, list, rows, readStore, wrote, deleted) ==
    [outcome |-> outcome, value |-> value, cache |-> list, rows |-> rows,
     readStore |-> readStore, wrote |-> wrote, deleted |-> deleted]

\* Variant of the clause below that re-raises instead of returning [].
get_chat_history_reraise(list, rows, readStore) ==
    Effect("raised", <<>>, list, rows, readStore, FALSE, FALSE)

\* get_chat_history's `except Exception` clause: log, then return [].
get_chat_history_except(list, rows, readStore) ==
    Effect("value", <<>>, list, rows, readStore, FALSE, FALSE)

\* UserSession.get_chat_history.  The handler awaits the value of
\* RedisSession.get_chat_history; that method is a plain def returning a list,
\* and awaiting a list raises TypeError inside the try block, so the except
\* clause ends the call with [] before the hit/miss test is reached.
UserSession_get_chat_history(list, rows, redisFault, pgFault) ==
    LET cached_data == Redis_get_chat_history(list, redisFault) IN
    IF ~Redis_get_chat_history_is_coroutine
    THEN get_chat_history_except(list, rows, FALSE)
    ELSE IF cached_data # <<>>
    THEN Effect("value", cached_data, list, rows, FALSE, FALSE, FALSE)
    ELSE IF pgFault
    THEN get_chat_history_except(list, rows, TRUE)
    ELSE LET chat_history == Postgres_get_chat_history(rows) IN
         IF chat_history # <<>>
         THEN Effect("value", chat_history,
                     Redis_store_chat_message(list, chat_history, redisFault),
                     rows, TRUE, FALSE, FALSE)
         ELSE Effect("value", <<>>, list, rows, TRUE, FALSE, FALSE)

\* Positional arguments UserSession.store_chat_message passes to
\* PostgresSession.store_chat_message: (session_id, messages).
UserSession_store_args == 2

\* Variant of the clause below that logs and returns instead of re-raising.
store_chat_message_swallow(list, rows) ==
    Effect("value", <<>>, list, rows, FALSE, FALSE, FALSE)

\* store_chat_message's `except Exception` clause: log, then re-raise.
store_chat_message_except(list, rows) ==
    Effect("raised", <<>>, list, rows, FALSE, FALSE, FALSE)

\* Variant of the handler below that inserts the row and returns without
\* touching the cache key.
store_chat_message_without_invalidation(list, rows, messages, redisFault, pgFault) ==
    IF pgFault \/ Len(rows) > MaxStoredRows
    THEN store_chat_message_except(list, rows)
    ELSE Effect("value", <<>>, list, Append(rows, Postgres_row_of(messages)),
                FALSE, TRUE, FALSE)

\* UserSession.store_chat_message.  The call of PostgresSession's coroutine
\* function binds two of its three required parameters and raises TypeError
\* before any statement of it runs; the except clause re-raises.  Were the
\* call to bind, its coroutine is not awaited (nothing is inserted) and the
\* next statement looks up delete_chat_history, which RedisSession lacks.
UserSession_store_chat_message(list, rows, messages, redisFault, pgFault) ==
    IF Postgres_store_chat_message_params # UserSession_store_args
    THEN store_chat_message_except(list, rows)
    ELSE IF "delete_chat_history" \notin RedisSession_methods
    THEN store_chat_message_except(list, rows)
    ELSE Effect("value", <<>>, IF redisFault THEN list ELSE <<>>, rows,
                FALSE, FALSE, TRUE)

(***************************************************************************)
(* Callers of UserSession                                                  *)
(***************************************************************************)
\* The turns a caller appends: chat_history[-2:] of chat_completion.
NewTurns == {<<HumanMessage("q2"), AIMessage("r2")>>}

\* Rows found in user_interactions when the service starts.
StoredRow == [user_query |-> "q1", llm_response |-> "r1"]

RECURSIVE RowSeqs(_)
RowSeqs(n) ==
    IF n = 0 THEN {<<>>}
    ELSE RowSeqs(n - 1) \cup {Append(r, StoredRow) : r \in {x \in RowSeqs(n - 1) : Len(x) = n - 1}}

NoPrev ==
    [op |-> "none", sid |-> 1, msgs |-> <<>>, outcome |-> "none",
     redisFault |-> FALSE, pgFault |-> FALSE, cacheBefore |-> <<>>]

IdleCall ==
    [pc |-> "idle", op |-> "none", sid |-> 1, msgs |-> <<>>,
     redisFault |-> FALSE, pgFault |-> FALSE, outcome |-> "none",
     value |-> <<>>, cacheBefore |-> <<>>, cacheAfter |-> <<>>,
     rowsAfter |-> <<>>, readStore |-> FALSE, wrote |-> FALSE,
     deleted |-> FALSE, alone |-> FALSE, overlapped |-> FALSE,
     prev |-> NoPrev]

Summary(r) ==
    [op |-> r.op, sid |-> r.sid, msgs |-> r.msgs, outcome |-> r.outcome,
     redisFault |-> r.redisFault, pgFault |-> r.pgFault,
     cacheBefore |-> r.cacheBefore]

\* Another handler has run on session s, or its key has expired: a caller on
\* s is no longer alone on it, and its record of its previous call is dropped.
\* Its mark of having overlapped another read lasts while only reads follow.
Disturb(r, s) ==
    IF r.sid = s
    THEN [r EXCEPT !.prev = NoPrev, !.alone = FALSE, !.overlapped = FALSE]
    ELSE r

\* A call as it is made.  It remembers the caller's previous call when that
\* one was on the same session and nothing else has acted on the session since
\* it ran.
NewCall(old, op, s, msgs, redisFault, pgFault) ==
    [IdleCall EXCEPT
        !.pc = "called", !.op = op, !.sid = s, !.msgs = msgs,
        !.redisFault = redisFault, !.pgFault = pgFault,
        !.prev = IF old.pc = "returned" /\ old.sid = s /\ old.alone
                 THEN Summary(old) ELSE NoPrev]

\* Redis and Postgres outlive the process: the service starts against rows
\* and keys that are already there.  A key that exists holds the history of
\* the session's rows.
SessionStart ==
    /\ durable \in [Sessions -> RowSeqs(MaxStoredRows)]
    /\ cache \in [Sessions -> {<<>>} \cup
                    {serialize_all(Postgres_get_chat_history(r)) :
                        r \in RowSeqs(MaxStoredRows)}]
    /\ \A s \in Sessions :
          cache[s] \in {<<>>, serialize_all(Postgres_get_chat_history(durable[s]))}
    /\ call = [c \in Callers |-> IdleCall]

Invoke_get_chat_history(c) ==
    /\ call[c].pc # "called"
    /\ \E s \in Sessions, redisFault \in BOOLEAN, pgFault \in BOOLEAN :
          call' = [call EXCEPT ![c] = NewCall(call[c], "get", s, <<>>, redisFault, pgFault)]
    /\ UNCHANGED <<durable, cache, nonSessionVars>>

Invoke_store_chat_message(c) ==
    /\ call[c].pc # "called"
    /\ \E s \in Sessions, msgs \in NewTurns, pgFault \in BOOLEAN :
          call' = [call EXCEPT ![c] = NewCall(call[c], "store", s, msgs, FALSE, pgFault)]
    /\ UNCHANGED <<durable, cache, nonSessionVars>>

\* A get_chat_history call by d on session s is in flight.
Reading(d, s) ==
    call[d].pc = "called" /\ call[d].op = "get" /\ call[d].sid = s

\* Caller c's handler runs to its end with effect e.  Either handler issues
\* at most one backend operation before it ends (get_chat_history one Redis
\* pipeline, store_chat_message none), so a run is one step.
Finish(c, e) ==
    LET s == call[c].sid IN
    /\ cache' = [cache EXCEPT ![s] = e.cache]
    /\ durable' = [durable EXCEPT ![s] = e.rows]
    /\ call' = [d \in Callers |->
                  IF d = c
                  THEN [call[c] EXCEPT
                          !.pc = "returned", !.outcome = e.outcome,
                          !.alone = TRUE, !.cacheBefore = cache[s],
                          !.overlapped =
                              \/ call[c].overlapped
                              \/ /\ call[c].op = "get"
                                 /\ \E o \in Callers \ {c} : Reading(o, s),
                          !.value = e.value, !.cacheAfter = e.cache,
                          !.rowsAfter = e.rows, !.readStore = e.readStore,
                          !.wrote = e.wrote, !.deleted = e.deleted]
                  ELSE IF call[c].op = "get" /\ call[d].sid = s
                  THEN [Disturb(call[d], s) EXCEPT
                          !.overlapped = call[d].overlapped \/ Reading(d, s)]
                  ELSE Disturb(call[d], s)]
    /\ UNCHANGED nonSessionVars

Run_get_chat_history(c) ==
    /\ call[c].pc = "called"
    /\ call[c].op = "get"
    /\ Finish(c, UserSession_get_chat_history(
                    cache[call[c].sid], durable[call[c].sid],
                    call[c].redisFault, call[c].pgFault))

Run_store_chat_message(c) ==
    /\ call[c].pc = "called"
    /\ call[c].op = "store"
    /\ Finish(c, UserSession_store_chat_message(
                    cache[call[c].sid], durable[call[c].sid], call[c].msgs,
                    call[c].redisFault, call[c].pgFault))

\* The key's TTL (set by EXPIRE on every store and every read) runs out.
ExpireKey(s) ==
    /\ cache[s] # <<>>
    /\ cache' = [cache EXCEPT ![s] = <<>>]
    /\ call' = [d \in Callers |-> Disturb(call[d], s)]
    /\ UNCHANGED <<durable, nonSessionVars>>

SessionNext ==
    \/ \E c \in Callers : Invoke_get_chat_history(c)
    \/ \E c \in Callers : Invoke_store_chat_message(c)
    \/ \E c \in Callers : Run_get_chat_history(c)
    \/ \E c \in Callers : Run_store_chat_message(c)
    \/ \E s \in Sessions : ExpireKey(s)

(***************************************************************************)
(* LRUCache                                                                *)
(***************************************************************************)
\* Configuration of the cache under test (ConfigSchema.cache).
Capacity == 2
ExpiryTime == 1
CleanupInterval == 1

\* Bounds of the model.
NumKeys == 3
MaxTime == 2
MaxQueue == 4
MaxJanitorTime == 3
NumLockKeys == 2

Keys == 1..NumKeys
Values == {"v1", "v2"}

\* Capacity, eviction order, expiry and locking do not look at the values:
\* one value and, for the threads, fewer keys are enough for them.
OneValue == {"v1"}
LockKeys == 1..NumLockKeys

NoOp == [op |-> "none", key |-> 0, ret |-> None, evicted |-> 0, at |-> 0]

Entry(k, v, t) == [key |-> k, value |-> v, ts |-> t]

HasKey(c, k) == \E i \in 1..Len(c) : c[i].key = k
ValueOf(c, k) == (CHOOSE e \in {c[i] : i \in 1..Len(c)} : e.key = k).value
Without(c, k) == SelectSeq(c, LAMBDA e : e.key # k)

\* Variant of get below that refreshes the timestamp of a hit but leaves the
\* key where it is in the order.
LRU_get_without_move(c, q, k, t) ==
    IF ~HasKey(c, k)
    THEN [cache |-> c, queue |-> q, ret |-> None]
    ELSE [cache |-> [i \in 1..Len(c) |->
                        IF c[i].key = k THEN Entry(k, c[i].value, t) ELSE c[i]],
          queue |-> Append(q, <<t, k>>),
          ret |-> ValueOf(c, k)]

\* LRUCache.get, inside `with self.lock`: a miss returns None and changes
\* nothing; a hit moves the key to the end, stamps it with the current time,
\* appends (now, key) to the expiry queue and returns the value.
LRU_get(c, q, k, t) ==
    IF ~HasKey(c, k)
    THEN [cache |-> c, queue |-> q, ret |-> None]
    ELSE [cache |-> Append(Without(c, k), Entry(k, ValueOf(c, k), t)),
          queue |-> Append(q, <<t, k>>),
          ret |-> ValueOf(c, k)]

\* Variant of the check below that tolerates one entry too many.
LRU_evict_late(c) == IF Len(c) > Capacity + 1 THEN Tail(c) ELSE c

\* The capacity check that ends LRUCache.put: popitem(False) drops the front.
LRU_evict(c) == IF Len(c) > Capacity THEN Tail(c) ELSE c

\* LRUCache.put, inside `with self.lock`: move an existing key to the end,
\* assign (value, now) (a new key goes to the end), append (now, key) to the
\* expiry queue, then evict the front when the size exceeds the capacity.
LRU_put(c, q, k, v, t) ==
    [cache |-> LRU_evict(Append(Without(c, k), Entry(k, v, t))),
     queue |-> Append(q, <<t, k>>)]

\* The first loop of LRUCache.cleanup: while the record at the left of the
\* expiry queue is older than expiry_time, pop it and drop its key from the
\* cache if the key is still there.
RECURSIVE LRU_drain(_, _, _)
LRU_drain(c, q, t) ==
    IF q # <<>> /\ t - Head(q)[1] > ExpiryTime
    THEN LRU_drain(Without(c, Head(q)[2]), Tail(q), t)
    ELSE [cache |-> c, queue |-> q]

\* Variant of cleanup below that pops the old queue records and leaves the
\* cache as it is.
LRU_cleanup_queue_only(c, q, t) ==
    [cache |-> c, queue |-> LRU_drain(c, q, t).queue]

\* LRUCache.cleanup, inside `with self.lock`: the queue loop, then every
\* entry whose own timestamp is older than expiry_time is deleted.
LRU_cleanup(c, q, t) ==
    LET d == LRU_drain(c, q, t) IN
    [cache |-> SelectSeq(d.cache, LAMBDA e : ~(t - e.ts > ExpiryTime)),
     queue |-> d.queue]

\* The record of touches after key k is put or hit at time t.
Touch(tch, k, t) ==
    Append(SelectSeq(tch, LAMBDA e : e.key # k), [key |-> k, at |-> t])

\* LRUCache.__init__: empty structures; the cleanup thread is started and
\* goes to sleep for cleanup_interval.
CacheStart ==
    /\ lru_cache = <<>>
    /\ expiry_queue = <<>>
    /\ now = 0
    /\ lru_last = NoOp
    /\ touched = <<>>
    /\ swept = FALSE
    /\ wake = CleanupInterval

get(k) ==
    /\ Len(expiry_queue) < MaxQueue
    /\ LET r == LRU_get(lru_cache, expiry_queue, k, now) IN
          /\ lru_cache' = r.cache
          /\ expiry_queue' = r.queue
          /\ lru_last' = [op |-> "get", key |-> k, ret |-> r.ret,
                          evicted |-> 0, at |-> now]
          /\ touched' = IF HasKey(lru_cache, k) THEN Touch(touched, k, now)
                        ELSE touched
    /\ UNCHANGED <<now, swept, wake, nonCacheVars>>

put(k, v) ==
    /\ Len(expiry_queue) < MaxQueue
    /\ LET r == LRU_put(lru_cache, expiry_queue, k, v, now) IN
          /\ lru_cache' = r.cache
          /\ expiry_queue' = r.queue
          /\ lru_last' = [op |-> "put", key |-> k, ret |-> None,
                          evicted |-> Len(Without(lru_cache, k)) + 1 - Len(r.cache),
                          at |-> now]
    /\ touched' = Touch(touched, k, now)
    /\ UNCHANGED <<now, swept, wake, nonCacheVars>>

\* What a call of LRUCache.cleanup does to the cache.
Sweep ==
    LET r == LRU_cleanup(lru_cache, expiry_queue, now) IN
    /\ lru_cache' = r.cache
    /\ expiry_queue' = r.queue
    /\ lru_last' = [op |-> "cleanup", key |-> 0, ret |-> None,
                    evicted |-> Len(lru_cache) - Len(r.cache), at |-> now]
    /\ swept' = (swept \/ Len(r.cache) < Len(lru_cache))
    /\ UNCHANGED <<now, touched, nonCacheVars>>

\* LRUCache.cleanup, called at any time.
cleanup ==
    /\ Sweep
    /\ UNCHANGED wake

\* A second of wall-clock time passes.
Tick ==
    /\ now < MaxTime
    /\ now' = now + 1
    /\ UNCHANGED <<lru_cache, expiry_queue, lru_last, touched, swept, wake,
                   nonCacheVars>>

\* Variant of the loop body below that sleeps and wakes without sweeping.
cleanup_task_without_sweep ==
    /\ now = wake
    /\ wake' = now + CleanupInterval
    /\ UNCHANGED <<lru_cache, expiry_queue, now, lru_last, touched, swept,
                   nonCacheVars>>

\* One pass of _cleanup_task's loop: the sleep of cleanup_interval ends, the
\* cache is swept, and the next sleep begins.
cleanup_task ==
    /\ now = wake
    /\ Sweep
    /\ wake' = now + CleanupInterval

\* A second passes while the cleanup thread sleeps; the thread is woken on
\* time, so the clock does not pass `wake` before the sweep has run.
Sleep ==
    /\ now < wake
    /\ now < MaxJanitorTime
    /\ now' = now + 1
    /\ UNCHANGED <<lru_cache, expiry_queue, lru_last, touched, swept, wake,
                   nonCacheVars>>

JanitorNext ==
    \/ \E k \in Keys : get(k)
    \/ \E k \in Keys, v \in OneValue : put(k, v)
    \/ cleanup_task
    \/ Sleep

(***************************************************************************)
(* LRUCache under its threads                                              *)
(***************************************************************************)
\* Two request threads and the cleanup thread started by __init__.
RequestThreads == {"req1", "req2"}
Threads == RequestThreads \cup {"janitor"}

\* A thread outside LRUCache.  For the cleanup thread `op` is the call its
\* loop makes next: cleanup, then print_cache, then cleanup again.
IdleThread(t) ==
    [pc |-> "idle", op |-> IF t = "janitor" THEN "cleanup" ELSE "none",
     key |-> 0, value |-> None, current_time |-> 0]

\* Variant of the test below that lets a thread in whoever holds the lock.
Lock_free_ignored(l) == TRUE

\* threading.Lock: `with self.lock` blocks until the lock is unlocked.
Lock_free(l) == l = None

\* `with self.lock:` entered by thread t for the call op(k, v).
Enter(t, op, k, v) ==
    /\ thread[t].pc = "idle"
    /\ Lock_free(lock)
    /\ lock' = t
    /\ thread' = [thread EXCEPT ![t] =
                      [pc |-> "entered", op |-> op, key |-> k, value |-> v,
                       current_time |-> 0]]
    /\ UNCHANGED <<lruVars, sessionVars, packVars, serviceVars>>

enter_get(t, k) ==
    /\ Len(expiry_queue) < MaxQueue
    /\ Enter(t, "get", k, None)

enter_put(t, k, v) ==
    /\ Len(expiry_queue) < MaxQueue
    /\ Enter(t, "put", k, v)

\* _cleanup_task calls cleanup and print_cache in turn.
enter_janitor ==
    /\ thread["janitor"].op \in {"cleanup", "print_cache"}
    /\ Enter("janitor", thread["janitor"].op, 0, None)

\* The statements of each operation that work on self.cache before
\* self.expiry_queue is brought up to date: lines 86-90 of get (a miss
\* returns at once), 98-101 of put, 110-116 of cleanup (its queue loop pops
\* a record and the record's key together), 130-138 of print_cache.
first_half(t) ==
    LET r == thread[t] IN
    /\ r.pc = "entered"
    /\ \/ /\ r.op = "get" /\ ~HasKey(lru_cache, r.key)
          /\ thread' = [thread EXCEPT ![t].pc = "done"]
          /\ UNCHANGED <<lru_cache, expiry_queue>>
       \/ /\ r.op = "get" /\ HasKey(lru_cache, r.key)
          /\ lru_cache' = Append(Without(lru_cache, r.key),
                                 Entry(r.key, ValueOf(lru_cache, r.key), now))
          /\ thread' = [thread EXCEPT ![t].pc = "halfway"]
          /\ UNCHANGED expiry_queue
       \/ /\ r.op = "put"
          /\ lru_cache' = Append(Without(lru_cache, r.key),
                                 Entry(r.key, r.value, now))
          /\ thread' = [thread EXCEPT ![t].pc = "halfway"]
          /\ UNCHANGED expiry_queue
       \/ /\ r.op = "cleanup"
          /\ LET d == LRU_drain(lru_cache, expiry_queue, now) IN
                /\ lru_cache' = d.cache
                /\ expiry_queue' = d.queue
          /\ thread' = [thread EXCEPT ![t].pc = "halfway",
                                      ![t].current_time = now]
       \/ /\ r.op = "print_cache"
          /\ thread' = [thread EXCEPT ![t].pc = "done"]
          /\ UNCHANGED <<lru_cache, expiry_queue>>
    /\ UNCHANGED <<now, lru_last, touched, swept, wake, lock, sessionVars,
                   packVars, serviceVars>>

\* The remaining statements: line 91 of get, 102-105 of put, 118-125 of
\* cleanup.
second_half(t) ==
    LET r == thread[t] IN
    /\ r.pc = "halfway"
    /\ \/ /\ r.op = "get"
          /\ expiry_queue' = Append(expiry_queue, <<now, r.key>>)
          /\ UNCHANGED lru_cache
       \/ /\ r.op = "put"
          /\ expiry_queue' = Append(expiry_queue, <<now, r.key>>)
          /\ lru_cache' = LRU_evict(lru_cache)
       \/ /\ r.op = "cleanup"
          /\ lru_cache' = SelectSeq(lru_cache,
                 LAMBDA e : ~(r.current_time - e.ts > ExpiryTime))
          /\ UNCHANGED expiry_queue
    /\ thread' = [thread EXCEPT ![t].pc = "done"]
    /\ UNCHANGED <<now, lru_last, touched, swept, wake, lock, sessionVars,
                   packVars, serviceVars>>

\* The `with` block is left: the lock is released and the call returns.
leave(t) ==
    /\ thread[t].pc = "done"
    /\ lock' = None
    /\ thread' = [thread EXCEPT ![t] =
          IF t = "janitor"
          THEN [IdleThread(t) EXCEPT
                   !.op = IF thread[t].op = "cleanup" THEN "print_cache"
                          ELSE "cleanup"]
          ELSE IdleThread(t)]
    /\ UNCHANGED <<lruVars, sessionVars, packVars, serviceVars>>

\* A second passes, wherever the threads are.
LockTick ==
    /\ now < MaxTime
    /\ now' = now + 1
    /\ UNCHANGED <<lru_cache, expiry_queue, lru_last, touched, swept, wake,
                   nonCacheVars>>

LockNext ==
    \/ \E t \in RequestThreads, k \in LockKeys : enter_get(t, k)
    \/ \E t \in RequestThreads, k \in LockKeys, v \in OneValue : enter_put(t, k, v)
    \/ enter_janitor
    \/ \E t \in Threads : first_half(t)
    \/ \E t \in Threads : second_half(t)
    \/ \E t \in Threads : leave(t)
    \/ LockTick

LockIdle ==
    /\ lock = None
    /\ thread = [t \in Threads |-> IdleThread(t)]

(***************************************************************************)
(* Token counting                                                          *)
(***************************************************************************)
\* tiktoken's Encoding.encode on the texts that occur below: text -> token ids.
encode(text) ==
    CASE text = "" -> <<>>
      [] text = "hi" -> <<6151>>
      [] text = "hello there" -> <<15339, 1070>>
      [] text = "source: a" -> <<2484, 25, 264>>
      [] text = "source: a, page: 1" -> <<2484, 25, 264, 11, 2199, 25, 220, 16>>

NoInput == [op |-> "none"]
NoOutput == [op |-> "none"]

PackIdle ==
    /\ pack_in = NoInput
    /\ pack_out = NoOutput

\* The callers of RedisSession.acquire_lock / release_lock on one lock name.
LockCallers == {"a", "b"}

NoRequest == [pc |-> "none"]
NoKey == [value |-> None]
IdleLocker == [pc |-> "idle", wait |-> 0, result |-> None]

ServiceIdle ==
    /\ request = NoRequest
    /\ lock_key = NoKey
    /\ locker = [c \in LockCallers |-> IdleLocker]

CacheNext ==
    \/ \E k \in Keys : get(k)
    \/ \E k \in Keys, v \in OneValue : put(k, v)
    \/ cleanup
    \/ Tick

SessionIdle ==
    /\ durable = [s \in Sessions |-> <<>>]
    /\ cache = [s \in Sessions |-> <<>>]
    /\ call = [c \in Callers |-> IdleCall]

CacheInit == CacheStart /\ SessionIdle /\ LockIdle /\ PackIdle /\ ServiceIdle

LockInit == CacheStart /\ SessionIdle /\ LockIdle /\ PackIdle /\ ServiceIdle

LockSpec == LockInit /\ [][LockNext]_vars

CacheSpec == CacheInit /\ [][CacheNext]_vars

JanitorInit == CacheStart /\ SessionIdle /\ LockIdle /\ PackIdle /\ ServiceIdle

JanitorSpec == JanitorInit /\ [][JanitorNext]_vars

LruIdle ==
    /\ lru_cache = <<>>
    /\ expiry_queue = <<>>
    /\ now = 0
    /\ lru_last = NoOp
    /\ touched = <<>>
    /\ swept = FALSE
    /\ wake = CleanupInterval

SessionInit == SessionStart /\ LruIdle /\ LockIdle /\ PackIdle /\ ServiceIdle

SessionSpec == SessionInit /\ [][SessionNext]_vars


(***************************************************************************)
(* ChatHistoryProcessor                                                    *)
(***************************************************************************)
\* Bounds of the model.
MaxTurns == 5
MaxHistoryLimit == 4

HistoryContents == {"", "hi", "hello there"}

RECURSIVE ContentSeqs(_)
ContentSeqs(n) ==
    IF n = 0 THEN {<<>>}
    ELSE LET S == ContentSeqs(n - 1) IN
         S \cup {Append(q, c) : q \in {r \in S : Len(r) = n - 1},
                                c \in HistoryContents}

\* A chat history as UserSession hands it over: human and AI messages in turn.
ChatHistory(contents) ==
    [i \in 1..Len(contents) |->
        IF i % 2 = 1 THEN HumanMessage(contents[i]) ELSE AIMessage(contents[i])]

\* The loop of _process_chat_history (lines 42-57) at message i of
\* reversed(chat_history): the message is inserted at the front (line 45); if
\* it fits the limit it is inserted at the front again (lines 51-53) and
\* counted, otherwise limit_exceeded is set and the loop is left.
RECURSIVE process_loop(_, _, _, _, _)
process_loop(chat_history, i, included_messages, current_token_count, limit) ==
    IF i = 0
    THEN [op |-> "history",
          included_messages |-> included_messages,
          current_token_count |-> current_token_count,
          limit_exceeded |-> FALSE]
    ELSE LET message == chat_history[i]
             inserted == <<message>> \o included_messages
             temp_token_count == Len(encode(message.content))
         IN  IF current_token_count + temp_token_count <= limit
             THEN process_loop(chat_history, i - 1, <<message>> \o inserted,
                               current_token_count + temp_token_count, limit)
             ELSE [op |-> "history",
                   included_messages |-> inserted,
                   current_token_count |-> current_token_count,
                   limit_exceeded |-> TRUE]

\* ChatHistoryProcessor._process_chat_history, without the time it measures.
process_chat_history(chat_history, limit) ==
    process_loop(chat_history, Len(chat_history), <<>>, 0, limit)

HistoryStart ==
    /\ pack_in \in [op : {"history"},
                     chat_history : {ChatHistory(q) : q \in ContentSeqs(MaxTurns)},
                     chat_history_max_token_limit : 0..MaxHistoryLimit]
    /\ pack_out = NoOutput

call_process_chat_history ==
    /\ pack_in.op = "history"
    /\ pack_out = NoOutput
    /\ pack_out' = process_chat_history(pack_in.chat_history,
                                        pack_in.chat_history_max_token_limit)
    /\ UNCHANGED <<pack_in, sessionVars, lruVars, lockVars, serviceVars>>

HistoryNext == call_process_chat_history

HistoryInit == HistoryStart /\ SessionIdle /\ LruIdle /\ LockIdle /\ ServiceIdle

HistorySpec == HistoryInit /\ [][HistoryNext]_vars

(***************************************************************************)
(* AggregateDocsChain                                                      *)
(***************************************************************************)
\* Bounds of the model.
MaxDocs == 3
MaxContextLimit == 6

\* langchain Document: page_content and metadata, the dict as its items in
\* insertion order.
Document(page_content, metadata) ==
    [page_content |-> page_content, metadata |-> metadata]

\* The retrieved (document, score) pairs the lists are made of.
ScoredDocs ==
    {<<Document("hi", <<<<"source", "a">>>>), 0>>,
     <<Document("hello there", <<>>), 1>>,
     <<Document("", <<>>), 1>>,
     <<Document("hi", <<<<"source", "a">>, <<"page", "1">>>>), 0>>}

RECURSIVE DocLists(_)
DocLists(n) ==
    IF n = 0 THEN {<<>>}
    ELSE LET S == DocLists(n - 1) IN
         S \cup {Append(q, d) : q \in {r \in S : Len(r) = n - 1},
                                d \in ScoredDocs}

\* ", ".join(f"{key}: {value}" for key, value in doc.metadata.items())
RECURSIVE metadata_str(_)
metadata_str(items) ==
    IF items = <<>> THEN ""
    ELSE LET item == Head(items)[1] \o ": " \o Head(items)[2] IN
         IF Len(items) = 1 THEN item
         ELSE item \o ", " \o metadata_str(Tail(items))

\* str(float(score))
float_str(score) == CASE score = 0 -> "0.0" [] score = 1 -> "1.0"

\* Variant of the count below that leaves the metadata out.
new_tokens_content_only(doc) == Len(encode(doc.page_content))

\* Line 78: the tokens of the metadata string plus those of the content.
new_tokens(doc) ==
    Len(encode(metadata_str(doc.metadata))) + Len(encode(doc.page_content))

\* Variant of the test below that also refuses a document that fills the
\* limit exactly.
over_limit_or_equal(token_count, tokens, limit) == token_count + tokens >= limit

\* Line 79: the test that ends the loop.
over_limit(token_count, tokens, limit) == token_count + tokens > limit

\* Line 82: the block appended for a document that fits.
block(doc, score) ==
    "\n\n[Metadata: " \o metadata_str(doc.metadata) \o "]\n[Content: "
        \o doc.page_content \o "]\n[Score: " \o float_str(score) \o "]"

\* The loop of _aggregate_docs_until_token_limit (lines 74-83) from document
\* i on.
RECURSIVE aggregate_loop(_, _, _, _, _)
aggregate_loop(docs, i, combined_text, token_count, limit) ==
    IF i > Len(docs)
    THEN [combined_text |-> combined_text, token_count |-> token_count,
          limit_exceeded |-> FALSE]
    ELSE LET doc == docs[i][1]
             score == docs[i][2]
         IN  IF over_limit(token_count, new_tokens(doc), limit)
             THEN [combined_text |-> combined_text, token_count |-> token_count,
                   limit_exceeded |-> TRUE]
             ELSE aggregate_loop(docs, i + 1, combined_text \o block(doc, score),
                                 token_count + new_tokens(doc), limit)

\* Variant of the function below that returns the text as the loop left it.
aggregate_docs_without_sentinel(docs, limit) ==
    LET r == aggregate_loop(docs, 1, "", 0, limit) IN
    [op |-> "docs",
     combined_text |-> r.combined_text,
     token_count |-> r.token_count,
     limit_exceeded |-> r.limit_exceeded]

\* AggregateDocsChain._aggregate_docs_until_token_limit: the loop, then the
\* literal "No context provided" in place of an empty text (lines 85-87).
aggregate_docs_until_token_limit(docs, limit) ==
    LET r == aggregate_loop(docs, 1, "", 0, limit) IN
    [op |-> "docs",
     combined_text |-> IF r.combined_text # "" THEN r.combined_text
                       ELSE "No context provided",
     token_count |-> r.token_count,
     limit_exceeded |-> r.limit_exceeded]

DocsStart ==
    /\ pack_in \in [op : {"docs"},
                     docs : DocLists(MaxDocs),
                     aggreate_max_token_number : 0..MaxContextLimit]
    /\ pack_out = NoOutput

call_aggregate_docs_until_token_limit ==
    /\ pack_in.op = "docs"
    /\ pack_out = NoOutput
    /\ pack_out' = aggregate_docs_until_token_limit(
                       pack_in.docs, pack_in.aggreate_max_token_number)
    /\ UNCHANGED <<pack_in, sessionVars, lruVars, lockVars, serviceVars>>

DocsNext == call_aggregate_docs_until_token_limit

DocsInit == DocsStart /\ SessionIdle /\ LruIdle /\ LockIdle /\ ServiceIdle

DocsSpec == DocsInit /\ [][DocsNext]_vars

(***************************************************************************)
(* AssistantChain._invoke: the retrieval stage                             *)
(***************************************************************************)
\* Bounds of the model.  Scores are whole numbers of tenths; cutOffDistance
\* is cutoff / CutoffDen, and quotients are compared exactly.
MaxHits == 4
MaxScore == 5
CutoffDen == 10

RECURSIVE ScoreLists(_)
ScoreLists(n) ==
    IF n = 1 THEN {<<x>> : x \in -1..MaxScore}
    ELSE LET S == ScoreLists(n - 1) IN
         S \cup {Append(q, x) : q \in {r \in S : Len(r) = n - 1},
                                x \in -1..MaxScore}

\* doc[0]: the ids FAISS returns beside score[0]; the hit at position i has
\* id FaissIds(n)[i], an index into the list load_documents returns.
FaissIds(n) == [i \in 1..n |-> n - i + 1]
documents(id) == [id |-> id]

RECURSIVE np_sum(_)
np_sum(a) == IF a = <<>> THEN 0 ELSE Head(a) + np_sum(Tail(a))

RECURSIVE np_max(_)
np_max(a) ==
    IF Len(a) = 1 THEN a[1]
    ELSE LET m == np_max(Tail(a)) IN IF a[1] >= m THEN a[1] ELSE m

\* Position of a largest element.
ArgMax(a) == CHOOSE i \in 1..Len(a) : \A j \in 1..Len(a) : a[i] >= a[j]
Drop(a, i) == SubSeq(a, 1, i - 1) \o SubSeq(a, i + 1, Len(a))

RECURSIVE SortDescending(_)
SortDescending(a) ==
    IF a = <<>> THEN <<>>
    ELSE <<a[ArgMax(a)]>> \o SortDescending(Drop(a, ArgMax(a)))

Reverse(a) == [i \in 1..Len(a) |-> a[Len(a) - i + 1]]

\* np.sort(score[0] / np.sum(score[0]))[::-1], each quotient written by its
\* numerator: dividing by a negative sum turns the order round.
norm_sorted(score) ==
    IF np_sum(score) > 0 THEN SortDescending(score)
    ELSE Reverse(SortDescending(score))

\* np.cumsum, on the numerators.
np_cumsum(a) == [i \in 1..Len(a) |-> np_sum(SubSeq(a, 1, i))]

\* cdf[i] <= cutoff, for cdf[i] = cum / total.  With total = 0 the quotients
\* are inf and nan from the first position on (the largest is first) and no
\* comparison holds.
cdf_le_cutoff(cum, total, cutoff) ==
    IF total > 0 THEN cum * CutoffDen <= cutoff * total
    ELSE IF total < 0 THEN cum * CutoffDen >= cutoff * total
    ELSE FALSE

\* Line 88: np.where(cdf <= cutoff)[0][-1] if np.any(cdf <= cutoff) else None,
\* as a 0-based position; NoIndex stands for None.
NoIndex == -1
cutoff_index(score, cutoff) ==
    LET cdf == np_cumsum(norm_sorted(score))
        hits == {i \in 1..Len(score) :
                    cdf_le_cutoff(cdf[i], np_sum(score), cutoff)}
    IN  IF hits = {} THEN NoIndex
        ELSE (CHOOSE i \in hits : \A j \in hits : i >= j) - 1

\* Lines 77-95.  index + 1 with index = None is a TypeError, raised outside
\* both try blocks of _invoke.  Otherwise the first index + 1 hits are
\* selected (lines 89-91) and, if the best score reaches minScoreDistance,
\* the first `index` of them (range(index)) are returned with their scores.
retrieve(score, doc, cutoff, minScoreDistance) ==
    LET index == cutoff_index(score, cutoff) IN
    IF index = NoIndex
    THEN [op |-> "rank", outcome |-> "raised", retrieved_docs |-> <<>>]
    ELSE LET selected_doc_indexes == SubSeq(doc, 1, index + 1)
             selected_docs == [i \in 1..Len(selected_doc_indexes) |->
                                  documents(selected_doc_indexes[i])]
             selected_scores == SubSeq(score, 1, index + 1)
         IN  [op |-> "rank", outcome |-> "value",
              retrieved_docs |->
                  IF np_max(score) >= minScoreDistance
                  THEN [i \in 1..index |-> <<selected_docs[i], selected_scores[i]>>]
                  ELSE <<>>]

RankStart ==
    /\ pack_in \in [op : {"rank"},
                     score : ScoreLists(MaxHits),
                     cutOffDistance : 1..CutoffDen,
                     minScoreDistance : 0..MaxScore]
    /\ pack_out = NoOutput

call_retrieve ==
    /\ pack_in.op = "rank"
    /\ pack_out = NoOutput
    /\ pack_out' = retrieve(pack_in.score, FaissIds(Len(pack_in.score)),
                            pack_in.cutOffDistance, pack_in.minScoreDistance)
    /\ UNCHANGED <<pack_in, sessionVars, lruVars, lockVars, serviceVars>>

RankNext == call_retrieve

RankInit == RankStart /\ SessionIdle /\ LruIdle /\ LockIdle /\ ServiceIdle

RankSpec == RankInit /\ [][RankNext]_vars

(***************************************************************************)
(* One ask-question request: ErrorHandlingMiddleware, the endpoint and     *)
(* AssistantService.chat_completion                                        *)
(***************************************************************************)
\* tenacity.stop_after_attempt(3)
MaxAttempts == 3

\* `response, retrieved_docs, invoke_time, retrieval_time = ...`
unpack_targets == 4

\* store_chat_message(uuid.UUID(session_id), chat_history[-2:], invoke_time)
chat_completion_store_args == 3

\* def store_chat_message(self, session_id, messages)
UserSession_store_params == 2

Queries == {"q2", "q3"}

\* How a run of AssistantChain._invoke ends: the similarity search raised,
\* the statements between the two try blocks raised, chain.invoke raised, or
\* the language model answered.
InvokeOutcomes == {"retrieval_error", "rank_error", "chain_error", "answer"}

\* What _invoke hands to its caller: an exception, or the tuple of its
\* return statement (lines 71-74, 128-130 and 156).
_invoke(outcome) ==
    IF outcome = "retrieval_error"
    THEN [raised |-> FALSE,
          values |-> <<"Error retrieving documents.", "[]">>]
    ELSE IF outcome = "rank_error"
    THEN [raised |-> TRUE, values |-> <<>>]
    ELSE IF outcome = "chain_error"
    THEN [raised |-> FALSE,
          values |-> <<"Error Invoking the chain", "retrieved_docs">>]
    ELSE [raised |-> FALSE,
          values |-> <<"r2", "retrieved_docs", "invoke_time", "retrieval_time">>]

\* Variant of the store below in which the row is inserted before the
\* exception is raised.
store_interaction_committed_then_raised(list, rows, messages) ==
    Effect("raised", <<>>, list, Append(rows, Postgres_row_of(messages)),
           FALSE, TRUE, FALSE)

\* Lines 122-124 of chat_completion.  The call passes three positional
\* arguments to a method that takes two and raises TypeError before the
\* method runs.  Were it to bind, the method's own outcome would stand, and
\* `await` of the plain value it returns would raise.
store_interaction(list, rows, messages) ==
    IF chat_completion_store_args # UserSession_store_params
    THEN Effect("raised", <<>>, list, rows, FALSE, FALSE, FALSE)
    ELSE LET e == UserSession_store_chat_message(list, rows, messages, FALSE, FALSE)
         IN  [e EXCEPT !.outcome = "raised"]

Attempt(invoke, outcome, at) == [invoke |-> invoke, outcome |-> outcome, at |-> at]

\* The endpoint is reached with a non-empty question for a session:
\* dispatch calls _retry_and_circuit_breaker, which is at its first attempt.
receive ==
    /\ request = NoRequest
    /\ \E q \in Queries, s \in Sessions :
          request' = [pc |-> "call_next", query |-> q, sid |-> s, attempt |-> 1,
                      chat_history |-> <<>>, invoke |-> None, values |-> <<>>,
                      log |-> <<>>, status |-> 0]
    /\ UNCHANGED <<sessionVars, lruVars, lockVars, packVars, lock_key, locker>>

\* call_next(request) runs the endpoint up to line 113 of chat_completion:
\* the history is read and the question appended to it.
chat_completion_get_history ==
    /\ request.pc = "call_next"
    /\ LET s == request.sid
           e == UserSession_get_chat_history(cache[s], durable[s], FALSE, FALSE)
       IN  /\ cache' = [cache EXCEPT ![s] = e.cache]
           /\ request' = [request EXCEPT
                             !.pc = "invoke",
                             !.chat_history =
                                 Append(e.value, HumanMessage(request.query))]
    /\ UNCHANGED <<durable, call, lruVars, lockVars, packVars, lock_key, locker>>

\* The end of an attempt with an exception: it is recorded and leaves
\* call_next.
Raise(r, where) ==
    [r EXCEPT !.pc = "raised",
              !.log = Append(r.log, Attempt(r.invoke, "raised", where))]

\* Line 116, right-hand side: self._chain._invoke(...) runs.
chat_completion_invoke ==
    /\ request.pc = "invoke"
    /\ \E outcome \in InvokeOutcomes :
          LET r == [request EXCEPT !.invoke = outcome,
                                   !.values = _invoke(outcome).values]
          IN  request' = IF _invoke(outcome).raised
                         THEN Raise(r, "invoke")
                         ELSE [r EXCEPT !.pc = "unpack"]
    /\ UNCHANGED <<sessionVars, lruVars, lockVars, packVars, lock_key, locker>>

\* Line 116, left-hand side, and line 121: the tuple is unpacked into four
\* names (ValueError when it has another length) and the answer appended.
chat_completion_unpack ==
    /\ request.pc = "unpack"
    /\ request' =
          IF Len(request.values) # unpack_targets
          THEN Raise(request, "unpack")
          ELSE [request EXCEPT
                   !.pc = "store",
                   !.chat_history = Append(request.chat_history,
                                           AIMessage(request.values[1]))]
    /\ UNCHANGED <<sessionVars, lruVars, lockVars, packVars, lock_key, locker>>

\* Lines 122-168 and the endpoint's return: the interaction is stored, the
\* metrics are recorded and the answer is returned with status 200.
chat_completion_store ==
    /\ request.pc = "store"
    /\ LET s == request.sid
           h == request.chat_history
           e == store_interaction(cache[s], durable[s],
                                  SubSeq(h, Len(h) - 1, Len(h)))
       IN  /\ cache' = [cache EXCEPT ![s] = e.cache]
           /\ durable' = [durable EXCEPT ![s] = e.rows]
           /\ request' =
                 IF e.outcome = "raised"
                 THEN Raise(request, "store")
                 ELSE [request EXCEPT
                          !.pc = "done", !.status = 200,
                          !.log = Append(request.log,
                                         Attempt(request.invoke, "value", "return"))]
    /\ UNCHANGED <<call, lruVars, lockVars, packVars, lock_key, locker>>

\* tenacity: any exception is retried until the attempt limit is reached.
retry ==
    /\ request.pc = "raised"
    /\ request.attempt < MaxAttempts
    /\ request' = [request EXCEPT !.pc = "call_next",
                                  !.attempt = request.attempt + 1,
                                  !.chat_history = <<>>, !.invoke = None,
                                  !.values = <<>>]
    /\ UNCHANGED <<sessionVars, lruVars, lockVars, packVars, lock_key, locker>>

\* reraise=True: after the last attempt the exception reaches dispatch, whose
\* except clause answers 500.
dispatch_except ==
    /\ request.pc = "raised"
    /\ request.attempt = MaxAttempts
    /\ request' = [request EXCEPT !.pc = "done", !.status = 500]
    /\ UNCHANGED <<sessionVars, lruVars, lockVars, packVars, lock_key, locker>>

RequestNext ==
    \/ receive
    \/ chat_completion_get_history
    \/ chat_completion_invoke
    \/ chat_completion_unpack
    \/ chat_completion_store
    \/ retry
    \/ dispatch_except

RequestInit == ServiceIdle /\ SessionIdle /\ LruIdle /\ LockIdle /\ PackIdle

RequestSpec == RequestInit /\ [][RequestNext]_vars

(***************************************************************************)
(* RedisSession.acquire_lock / release_lock on one lock name               *)
(***************************************************************************)
\* The arguments of acquire_lock, in ticks of the clock.
acquire_timeout == 3
lock_timeout == 3

\* SET lock_key lock_value NX EX lock_timeout by caller c: the key is
\* created only when it is absent.  `owner` records whose SET created the
\* key; Redis stores the value and the time to live only.
Redis_set_nx_ex(key, c) ==
    IF key = NoKey
    THEN [key |-> [value |-> "time", ttl |-> lock_timeout, owner |-> c],
          ok |-> TRUE]
    ELSE [key |-> key, ok |-> FALSE]

\* DEL lock_key, whoever created the key.
Redis_delete(key, c) == NoKey

\* acquire_lock is called: end_time = time.time() + acquire_timeout.
acquire_lock(c) ==
    /\ locker[c].pc = "idle"
    /\ locker' = [locker EXCEPT ![c] =
                     [pc |-> "acquiring", wait |-> acquire_timeout,
                      result |-> None]]
    /\ UNCHANGED <<lock_key, request, sessionVars, lruVars, lockVars, packVars>>

\* One turn of the loop before end_time: the SET succeeds and acquire_lock
\* returns True, or the caller sleeps and tries again.
acquire_lock_try(c) ==
    /\ locker[c].pc = "acquiring"
    /\ locker[c].wait > 0
    /\ Redis_set_nx_ex(lock_key, c).ok
    /\ lock_key' = Redis_set_nx_ex(lock_key, c).key
    /\ locker' = [locker EXCEPT ![c] =
                     [pc |-> "holding", wait |-> 0, result |-> "True"]]
    /\ UNCHANGED <<request, sessionVars, lruVars, lockVars, packVars>>

\* time.time() has reached end_time: acquire_lock returns False.
acquire_lock_timed_out(c) ==
    /\ locker[c].pc = "acquiring"
    /\ locker[c].wait = 0
    /\ locker' = [locker EXCEPT ![c] =
                     [pc |-> "idle", wait |-> 0, result |-> "False"]]
    /\ UNCHANGED <<lock_key, request, sessionVars, lruVars, lockVars, packVars>>

\* release_lock, called by a caller whose acquire_lock returned True.
release_lock(c) ==
    /\ locker[c].pc = "holding"
    /\ lock_key' = Redis_delete(lock_key, c)
    /\ locker' = [locker EXCEPT ![c].pc = "idle"]
    /\ UNCHANGED <<request, sessionVars, lruVars, lockVars, packVars>>

\* A tick of the clock: the key's time to live runs down and the key is
\* removed at zero; the callers in acquire_lock come nearer to end_time.
RedisTick ==
    /\ \/ lock_key # NoKey
       \/ \E c \in LockCallers : locker[c].pc = "acquiring" /\ locker[c].wait > 0
    /\ lock_key' = IF lock_key = NoKey THEN NoKey
                   ELSE IF lock_key.ttl = 1 THEN NoKey
                   ELSE [lock_key EXCEPT !.ttl = lock_key.ttl - 1]
    /\ locker' = [c \in LockCallers |->
                     IF locker[c].pc = "acquiring" /\ locker[c].wait > 0
                     THEN [locker[c] EXCEPT !.wait = locker[c].wait - 1]
                     ELSE locker[c]]
    /\ UNCHANGED <<request, sessionVars, lruVars, lockVars, packVars>>

RedisLockNext ==
    \/ \E c \in LockCallers : acquire_lock(c)
    \/ \E c \in LockCallers : acquire_lock_try(c)
    \/ \E c \in LockCallers : acquire_lock_timed_out(c)
    \/ \E c \in LockCallers : release_lock(c)
    \/ RedisTick

RedisLockInit == ServiceIdle /\ SessionIdle /\ LruIdle /\ LockIdle /\ PackIdle

RedisLockSpec == RedisLockInit /\ [][RedisLockNext]_vars

(***************************************************************************)
(* Properties of the session coordinator (checked under SessionSpec)       *)
(***************************************************************************)
Returned(c) == call[c].pc = "returned"
InFlight(s) == \E c \in Callers : call[c].pc = "called" /\ call[c].sid = s
CachedHistory(list) == deserialize_all(list)
IsSuffix(a, b) ==
    /\ Len(a) <= Len(b)
    /\ SubSeq(b, Len(b) - Len(a) + 1, Len(b)) = a

\* C1: whenever no UserSession call on a session is in flight, the session's
\* Redis list is absent or decodes to exactly the history PostgresSession
\* returns for that session, whatever get_chat_history and store_chat_message
\* calls ran before and however they interleaved.
C1_CacheCoherentWhenQuiescent ==
    \A s \in Sessions :
        ~InFlight(s) =>
            \/ cache[s] = <<>>
            \/ CachedHistory(cache[s]) = Postgres_get_chat_history(durable[s])

\* Both callers have run on one session, one a read and one an append, and
\* the session still has a cached history.
C1_Witness ==
    \E c \in Callers, d \in Callers, s \in Sessions :
        /\ Returned(c) /\ call[c].op = "get" /\ call[c].sid = s
        /\ Returned(d) /\ call[d].op = "store" /\ call[d].sid = s
        /\ ~InFlight(s)
        /\ cache[s] # <<>>

\* C2: a caller that appends newTurns while the durable store is healthy and
\* then, with nothing else acting on the session, reads the history: the
\* append returns successfully and the read returns a sequence ending in
\* newTurns, in order.
C2_AppendThenGetSeesNewTurns ==
    \A c \in Callers :
        (/\ Returned(c) /\ call[c].op = "get"
         /\ ~call[c].redisFault /\ ~call[c].pgFault
         /\ call[c].prev.op = "store" /\ ~call[c].prev.pgFault)
        => /\ call[c].prev.outcome = "value"
           /\ call[c].outcome = "value"
           /\ IsSuffix(call[c].prev.msgs, call[c].value)

\* C3: an append that runs while the durable store is healthy returns
\* successfully with the new turns at the end of the stored history and the
\* session's cache key absent; and no append deletes the cache key without
\* having written the row first.
C3_SuccessfulAppendPersistsThenInvalidates ==
    \A c \in Callers :
        /\ (Returned(c) /\ call[c].op = "store" /\ ~call[c].pgFault)
            => /\ call[c].outcome = "value"
               /\ call[c].wrote
               /\ IsSuffix(call[c].msgs, Postgres_get_chat_history(call[c].rowsAfter))
               /\ call[c].cacheAfter = <<>>
        /\ (Returned(c) /\ call[c].op = "store" /\ call[c].deleted)
            => call[c].wrote

\* C4: an append whose durable write fails ends in an error and leaves the
\* session's cache key as it was, and the caller's next read (nothing else
\* acting on the session in between) returns the history that was cached
\* before the append.
C4_FailedAppendKeepsCachedValue ==
    \A c \in Callers :
        /\ (Returned(c) /\ call[c].op = "store" /\ call[c].pgFault)
            => /\ call[c].outcome = "raised"
               /\ call[c].cacheAfter = call[c].cacheBefore
               /\ ~call[c].deleted
        /\ (/\ Returned(c) /\ call[c].op = "get" /\ ~call[c].redisFault
            /\ call[c].prev.op = "store" /\ call[c].prev.pgFault
            /\ call[c].prev.cacheBefore # <<>>)
            => /\ call[c].outcome = "value"
               /\ call[c].value = CachedHistory(call[c].prev.cacheBefore)

\* C5: a read that misses the cache for a session whose stored history H is
\* not empty returns H and leaves the cache key holding exactly H; the same
\* caller's next read (nothing else acting on the session in between) returns
\* H without reading the durable store.
C5_MissPopulatesCache ==
    \A c \in Callers :
        LET H == Postgres_get_chat_history(call[c].rowsAfter) IN
        /\ (/\ Returned(c) /\ call[c].op = "get"
            /\ ~call[c].redisFault /\ ~call[c].pgFault
            /\ call[c].cacheBefore = <<>> /\ H # <<>>)
            => /\ call[c].outcome = "value"
               /\ call[c].value = H
               /\ CachedHistory(call[c].cacheAfter) = H
        /\ (/\ Returned(c) /\ call[c].op = "get" /\ ~call[c].redisFault
            /\ call[c].prev.op = "get"
            /\ ~call[c].prev.redisFault /\ ~call[c].prev.pgFault
            /\ call[c].prev.cacheBefore = <<>> /\ H # <<>>)
            => /\ call[c].value = H
               /\ ~call[c].readStore

\* C6: a read that finds the session's history in the cache returns that
\* cached history, and neither reads nor changes the durable store.
C6_HitReturnsCachedHistory ==
    \A c \in Callers :
        (/\ Returned(c) /\ call[c].op = "get" /\ ~call[c].redisFault
         /\ call[c].cacheBefore # <<>>)
        => /\ call[c].outcome = "value"
           /\ call[c].value = CachedHistory(call[c].cacheBefore)
           /\ ~call[c].readStore
           /\ ~call[c].wrote

\* C7: a read for a session with no history in the durable store returns the
\* empty sequence, not an error, and leaves the session without a cache key.
C7_EmptyStoreGivesEmptyHistory ==
    \A c \in Callers :
        (/\ Returned(c) /\ call[c].op = "get"
         /\ Postgres_get_chat_history(call[c].rowsAfter) = <<>>)
        => /\ call[c].outcome = "value"
           /\ call[c].value = <<>>
           /\ call[c].cacheAfter = <<>>

\* A read has returned for a session that has no stored rows, with both
\* backends healthy.
C7_Witness ==
    \E c \in Callers :
        /\ Returned(c) /\ call[c].op = "get"
        /\ ~call[c].redisFault /\ ~call[c].pgFault
        /\ call[c].rowsAfter = <<>>
        /\ call[c].value = <<>>

\* C8: a read during which Redis is unreachable does not fail; it returns
\* the history held by the durable store.
C8_CacheOutageFallsThroughToStore ==
    \A c \in Callers :
        (/\ Returned(c) /\ call[c].op = "get"
         /\ call[c].redisFault /\ ~call[c].pgFault)
        => /\ call[c].outcome = "value"
           /\ call[c].value = Postgres_get_chat_history(call[c].rowsAfter)

ConcurrentMisses(s) ==
    \A c \in Callers :
        /\ Returned(c) /\ call[c].op = "get" /\ call[c].sid = s
        /\ call[c].overlapped
        /\ call[c].cacheBefore = <<>>
        /\ ~call[c].redisFault /\ ~call[c].pgFault

\* C27: when the reads of one session miss the cache concurrently and nothing
\* is written, every one of them returns the history held by the durable
\* store, and when all have returned the cache holds exactly that history,
\* each turn once and in order.
C27_ConcurrentMissesAgree ==
    \A s \in Sessions :
        ConcurrentMisses(s) =>
            /\ \A c \in Callers :
                  /\ call[c].outcome = "value"
                  /\ call[c].value = Postgres_get_chat_history(durable[s])
            /\ CachedHistory(cache[s]) = Postgres_get_chat_history(durable[s])

(***************************************************************************)
(* Properties of LRUCache (checked under CacheSpec)                        *)
(***************************************************************************)
\* C10: between any two LRUCache operations the cache holds at most
\* `capacity` entries.
C10_SizeAtMostCapacity == Len(lru_cache) <= Capacity

\* A put has just pushed the size over the capacity and evicted the front.
C10_Witness ==
    /\ lru_last.op = "put"
    /\ lru_last.evicted = 1
    /\ Len(lru_cache) = Capacity

ResidentKeys == {lru_cache[i].key : i \in 1..Len(lru_cache)}
MostRecentlyTouched(n) ==
    {touched[i].key : i \in (Len(touched) - n + 1)..Len(touched)}
Min(a, b) == IF a <= b THEN a ELSE b
Age(e) == now - e.ts
UntouchedFor(k) ==
    LET i == CHOOSE j \in 1..Len(touched) : touched[j].key = k IN
    now - touched[i].at
Touched(k) == \E i \in 1..Len(touched) : touched[i].key = k

\* C11: as long as no cleanup has removed an entry, after every put and get
\* the resident keys are exactly the min(capacity, number of distinct touched
\* keys) most recently touched keys, a touch being a put or a get that hit.
C11_ResidentAreMostRecentlyTouched ==
    ~swept =>
        ResidentKeys = MostRecentlyTouched(Min(Capacity, Len(touched)))

\* More keys have been touched than fit, no sweep has removed anything, and
\* the last operation was a get that hit.
C11_Witness ==
    /\ ~swept
    /\ Len(touched) > Capacity
    /\ lru_last.op = "get"
    /\ lru_last.ret # None

\* C12: a cleanup removes only entries whose age, counted from their last put
\* or get hit, exceeds expiry_time: every entry touched within the last
\* expiry_time seconds is still resident when the cleanup returns.
C12_SweepKeepsFreshEntries ==
    [][cleanup =>
          \A i \in 1..Len(lru_cache) :
              Age(lru_cache[i]) <= ExpiryTime
                  => HasKey(lru_cache', lru_cache[i].key)]_vars

\* C13: when a cleanup has just returned, no resident entry is older than
\* expiry_time, whether or not it was ever read after it was put.
C13_NoStaleEntryAfterSweep ==
    (lru_last.op = "cleanup" /\ lru_last.at = now) =>
        \A i \in 1..Len(lru_cache) : Age(lru_cache[i]) <= ExpiryTime

\* A cleanup has just removed an entry and kept another.
C13_Witness ==
    /\ lru_last.op = "cleanup" /\ lru_last.at = now
    /\ lru_last.evicted >= 1
    /\ lru_cache # <<>>

EntryOf(c, k) == CHOOSE e \in {c[i] : i \in 1..Len(c)} : e.key = k

\* C26: a get for a resident entry whose age already exceeds expiry_time
\* returns the stored value, leaves the entry last in the order with the
\* current time as its timestamp, and the entry is still resident after a
\* cleanup that runs right after the get.
C26_StaleHitSurvivesNextSweep ==
    [][\A k \in Keys :
          (/\ get(k)
           /\ HasKey(lru_cache, k)
           /\ Age(EntryOf(lru_cache, k)) > ExpiryTime)
          => /\ lru_last'.ret = EntryOf(lru_cache, k).value
             /\ lru_cache'[Len(lru_cache')] = Entry(k, lru_last'.ret, now)
             /\ HasKey(LRU_cleanup(lru_cache', expiry_queue', now').cache, k)]_vars

(***************************************************************************)
(* Properties of LRUCache swept by its cleanup thread (JanitorSpec)        *)
(***************************************************************************)
\* C14: with the cleanup thread sweeping every cleanup_interval seconds, a
\* get for a key that no put or get hit has touched for longer than
\* expiry_time + cleanup_interval returns None.
C14_UntouchedEntryIsAbsent ==
    [][\A k \in Keys :
          (get(k) /\ Touched(k) /\ UntouchedFor(k) > ExpiryTime + CleanupInterval)
              => lru_last'.ret = None]_vars

\* A get has just missed a key that was last touched more than expiry_time +
\* cleanup_interval seconds ago.
C14_Witness ==
    /\ lru_last.op = "get" /\ lru_last.at = now
    /\ lru_last.ret = None
    /\ Touched(lru_last.key)
    /\ UntouchedFor(lru_last.key) > ExpiryTime + CleanupInterval

(***************************************************************************)
(* Properties of LRUCache under its threads (checked under LockSpec)       *)
(***************************************************************************)
InCritical(t) == thread[t].pc \in {"entered", "halfway", "done"}

\* What get, put and cleanup leave behind when they return: every resident
\* entry has, in the expiry queue, a record of its key that is at least as
\* recent as the entry's timestamp.
MapAndQueueAgree ==
    \A i \in 1..Len(lru_cache) :
        \E j \in 1..Len(expiry_queue) :
            /\ expiry_queue[j][2] = lru_cache[i].key
            /\ expiry_queue[j][1] >= lru_cache[i].ts

\* C15: no two threads are inside the `with self.lock` block of get, put,
\* cleanup or print_cache together, and a thread that has just entered its
\* block finds the cache and the expiry queue as a completed operation left
\* them, never half updated by another.
C15_OperationsMutuallyExclusive ==
    /\ \A t \in Threads, u \in Threads :
           (t # u /\ InCritical(t)) => ~InCritical(u)
    /\ \A t \in Threads :
           thread[t].pc = "entered" => MapAndQueueAgree

\* One thread is half way through a put, its entry in the cache and not yet
\* in the expiry queue, while the other request thread and the cleanup
\* thread have still to enter; the cleanup thread has swept before.
C15_Witness ==
    /\ \E t \in RequestThreads :
           /\ thread[t].pc = "halfway" /\ thread[t].op = "put"
           /\ \A u \in Threads \ {t} : thread[u].pc = "idle"
    /\ ~MapAndQueueAgree
    /\ thread["janitor"].op = "print_cache"

(***************************************************************************)
(* Properties of ChatHistoryProcessor (checked under HistorySpec)          *)
(***************************************************************************)
HistoryReturned == pack_out # NoOutput /\ pack_in.op = "history"

TokensOf(message) == Len(encode(message.content))

RECURSIVE TotalTokens(_)
TotalTokens(messages) ==
    IF messages = <<>> THEN 0
    ELSE TokensOf(Head(messages)) + TotalTokens(Tail(messages))

LastTurns(history, n) == SubSeq(history, Len(history) - n + 1, Len(history))

\* The number of turns in the longest suffix of the history that fits the limit.
LongestFittingSuffix(history, limit) ==
    CHOOSE n \in 0..Len(history) :
        /\ TotalTokens(LastTurns(history, n)) <= limit
        /\ \A m \in (n + 1)..Len(history) :
               TotalTokens(LastTurns(history, m)) > limit

\* C16: the messages returned by _process_chat_history are a contiguous
\* suffix of the chat history it was given, ending at the most recent turn:
\* each turn at most once, in the original order, none without all later ones.
C16_ReturnsSuffixOfHistory ==
    HistoryReturned =>
        IsSuffix(pack_out.included_messages, pack_in.chat_history)

\* C17: _process_chat_history returns exactly the longest suffix of the
\* history whose tokens total at most the limit, and limit_exceeded is true
\* exactly when a turn was left out.
C17_ReturnsLongestFittingSuffix ==
    HistoryReturned =>
        LET n == LongestFittingSuffix(pack_in.chat_history,
                                      pack_in.chat_history_max_token_limit)
        IN  /\ pack_out.included_messages = LastTurns(pack_in.chat_history, n)
            /\ pack_out.limit_exceeded <=> n < Len(pack_in.chat_history)

\* C18: the token count reported by _process_chat_history is the sum of the
\* token counts of the messages it returns, and is at most the limit.
C18_HistoryTokenCountIsSumOfReturned ==
    HistoryReturned =>
        /\ pack_out.current_token_count = TotalTokens(pack_out.included_messages)
        /\ pack_out.current_token_count <= pack_in.chat_history_max_token_limit

(***************************************************************************)
(* Properties of AggregateDocsChain (checked under DocsSpec)               *)
(***************************************************************************)
DocsReturned == pack_out # NoOutput /\ pack_in.op = "docs"

\* tokens(metadata) + tokens(content) of a scored document.
DocTokens(d) ==
    Len(encode(metadata_str(d[1].metadata))) + Len(encode(d[1].page_content))

RECURSIVE PrefixTokens(_, _)
PrefixTokens(docs, n) ==
    IF n = 0 THEN 0 ELSE PrefixTokens(docs, n - 1) + DocTokens(docs[n])

\* The text that packs the first n documents, in rank order.
RECURSIVE PackedText(_, _)
PackedText(docs, n) ==
    IF n = 0 THEN ""
    ELSE PackedText(docs, n - 1) \o block(docs[n][1], docs[n][2])

TextOfPrefix(docs, n) ==
    IF n = 0 THEN "No context provided" ELSE PackedText(docs, n)

\* The length of the longest prefix of docs whose tokens fit the limit.
LongestFittingPrefix(docs, limit) ==
    CHOOSE n \in 0..Len(docs) :
        /\ PrefixTokens(docs, n) <= limit
        /\ n < Len(docs) => PrefixTokens(docs, n + 1) > limit

\* C19: the packed text holds exactly the longest prefix of the ranked
\* documents whose cumulative tokens(metadata) + tokens(content) is at most
\* the limit (no document after the first that does not fit, a prefix that
\* fills the limit exactly in full), and limit_exceeded is true exactly when
\* a document was cut.
C19_PacksLongestFittingPrefix ==
    DocsReturned =>
        LET n == LongestFittingPrefix(pack_in.docs,
                                      pack_in.aggreate_max_token_number)
        IN  /\ pack_out.combined_text = TextOfPrefix(pack_in.docs, n)
            /\ pack_out.limit_exceeded <=> n < Len(pack_in.docs)

\* The packer has packed some documents and stopped at one that did not fit,
\* leaving out a later, smaller document that would have fitted.
C19_Witness ==
    /\ DocsReturned
    /\ pack_out.limit_exceeded
    /\ pack_out.token_count > 0
    /\ \E i \in 1..Len(pack_in.docs) :
           /\ PrefixTokens(pack_in.docs, i - 1) > pack_out.token_count
           /\ DocTokens(pack_in.docs[i]) > 0
           /\ pack_out.token_count + DocTokens(pack_in.docs[i])
                  <= pack_in.aggreate_max_token_number

\* C20: the token count returned by the packer is the sum of the token
\* counts of the documents in the packed text, and is at most the limit.
C20_DocsTokenCountIsSumOfIncluded ==
    DocsReturned =>
        /\ \E n \in 0..Len(pack_in.docs) :
               /\ pack_out.combined_text = TextOfPrefix(pack_in.docs, n)
               /\ pack_out.token_count = PrefixTokens(pack_in.docs, n)
        /\ pack_out.token_count <= pack_in.aggreate_max_token_number

\* Two documents, one of them with metadata, were packed and fill the limit
\* exactly.
C20_Witness ==
    /\ DocsReturned
    /\ ~pack_out.limit_exceeded
    /\ Len(pack_in.docs) >= 2
    /\ \E i \in 1..Len(pack_in.docs) : pack_in.docs[i][1].metadata # <<>>
    /\ pack_out.token_count = pack_in.aggreate_max_token_number

\* C21: when the packer includes no document (it is given none, or the first
\* one alone exceeds the limit) the packed text is the literal "No context
\* provided" and the token count is 0; the packed text is never empty.
C21_NoDocumentGivesSentinel ==
    DocsReturned =>
        /\ (\/ pack_in.docs = <<>>
            \/ DocTokens(pack_in.docs[1]) > pack_in.aggreate_max_token_number)
               => /\ pack_out.combined_text = "No context provided"
                  /\ pack_out.token_count = 0
        /\ pack_out.combined_text # ""

\* The packer was given documents and the first alone exceeded the limit.
C21_Witness ==
    /\ DocsReturned
    /\ pack_in.docs # <<>>
    /\ DocTokens(pack_in.docs[1]) > pack_in.aggreate_max_token_number
    /\ pack_out.combined_text = "No context provided"

(***************************************************************************)
(* Properties of the retrieval stage (checked under RankSpec)              *)
(***************************************************************************)
Ranked == pack_out # NoOutput /\ pack_in.op = "rank"

Descending(a) == \A i \in 1..(Len(a) - 1) : a[i] >= a[i + 1]

\* The hit at position i (from 1) with its own raw score.
Hit(i) ==
    <<documents(FaissIds(Len(pack_in.score))[i]), pack_in.score[i]>>

\* The positions (from 1) whose cumulative normalized score is at most the
\* cutoff, for a descending list with positive sum.
WithinCutoff ==
    {i \in 1..Len(pack_in.score) :
        np_sum(SubSeq(pack_in.score, 1, i)) * CutoffDen
            <= pack_in.cutOffDistance * np_sum(pack_in.score)}

LastWithinCutoff == CHOOSE i \in WithinCutoff : \A j \in WithinCutoff : i >= j

\* C22: for scores in descending order with positive sum, all of them at or
\* above the minimum, the stage returns the hits up to and including the last
\* position whose cumulative normalized score is at most cutOffDistance, each
\* with its own raw score, in the input order.
C22_ReturnsHitsUpToCutoff ==
    (/\ Ranked
     /\ Descending(pack_in.score) /\ np_sum(pack_in.score) > 0
     /\ \A i \in 1..Len(pack_in.score) :
            pack_in.score[i] >= pack_in.minScoreDistance
     /\ WithinCutoff # {})
    => /\ pack_out.outcome = "value"
       /\ pack_out.retrieved_docs = [i \in 1..LastWithinCutoff |-> Hit(i)]

\* C23: for scores in descending order with positive sum, when no position
\* has a cumulative normalized score within the cutoff the stage returns
\* exactly the top hit, and whenever some score reaches the minimum it
\* returns at least one hit.
C23_NeverEmptyAboveMinimum ==
    (Ranked /\ Descending(pack_in.score) /\ np_sum(pack_in.score) > 0)
    => /\ (WithinCutoff = {} /\ pack_in.score[1] >= pack_in.minScoreDistance)
              => /\ pack_out.outcome = "value"
                 /\ pack_out.retrieved_docs = <<Hit(1)>>
       /\ (\E i \in 1..Len(pack_in.score) :
               pack_in.score[i] >= pack_in.minScoreDistance)
              => /\ pack_out.outcome = "value"
                 /\ pack_out.retrieved_docs # <<>>

\* C24: every hit the stage returns has a raw score of at least
\* minScoreDistance.
C24_ReturnedHitsReachMinimum ==
    Ranked =>
        \A i \in 1..Len(pack_out.retrieved_docs) :
            pack_out.retrieved_docs[i][2] >= pack_in.minScoreDistance

\* C25: when the raw scores sum to zero or none of them is positive, the
\* stage returns no hit and raises nothing.
C25_DegenerateScoresGiveEmptySet ==
    (/\ Ranked
     /\ \/ np_sum(pack_in.score) = 0
        \/ \A i \in 1..Len(pack_in.score) : pack_in.score[i] <= 0)
    => /\ pack_out.outcome = "value"
       /\ pack_out.retrieved_docs = <<>>

(***************************************************************************)
(* Properties of one request (checked under RequestSpec)                   *)
(***************************************************************************)
\* C28: over all the attempts ErrorHandlingMiddleware makes for one request,
\* at most one interaction is written to the durable store.
C28_AtMostOneInteractionPerRequest ==
    \A s \in Sessions : Len(durable[s]) <= 1

\* The request has been answered after the last attempt, and in one of the
\* attempts the language model had answered and the store was reached.
C28_Witness ==
    /\ request.pc = "done"
    /\ Len(request.log) = MaxAttempts
    /\ \E i \in 1..Len(request.log) : request.log[i].at = "store"

\* C29: an attempt in which the similarity search raised or the chain
\* invocation raised does not end in an exception: chat_completion consumes
\* what _invoke returned and completes.
C29_InvokeErrorsAreConsumed ==
    request # NoRequest =>
        \A i \in 1..Len(request.log) :
            request.log[i].invoke \in {"retrieval_error", "chain_error"}
                => request.log[i].outcome = "value"

(***************************************************************************)
(* Properties of the Redis lock (checked under RedisLockSpec)              *)
(***************************************************************************)
\* The caller is between an acquire_lock that returned True and its own
\* release_lock.
Holding(c) == locker[c].pc = "holding"

\* C30: between a caller's successful acquire_lock and its release_lock no
\* other caller's acquire_lock returns True, and a release_lock never removes
\* a key that was created by another caller who still holds the lock.
C30_RedisLockIsExclusive ==
    [][\A c \in LockCallers :
          /\ acquire_lock_try(c) => \A o \in LockCallers \ {c} : ~Holding(o)
          /\ release_lock(c) =>
                ~(/\ lock_key # NoKey
                  /\ lock_key.owner # c
                  /\ Holding(lock_key.owner))]_vars

=============================================================================
